---- MODULE Spec2Model ----
(***************************************************************************)
(* The geo-audio walking tour page (src/app/page.tsx, two drafts of the    *)
(* same component, and src/unnamed/part_000, a third copy of the second    *)
(* draft without the AR button).                                           *)
(*                                                                         *)
(* The Home component is modelled as a state machine: its React state      *)
(* (locations, currentPosition, statusMessage, activeAudio, isWatching,    *)
(* error), its refs (watchIdRef, the <audio> element behind audioRef),     *)
(* and the platform objects its handlers talk to (pending                  *)
(* getCurrentPosition requests, active watchPosition subscriptions,        *)
(* pending play() promises).  One action per handler or callback.  A       *)
(* handler's action includes the render it causes and the                  *)
(* useEffect[activeAudio] that runs after that render.                     *)
(*                                                                         *)
(* Numbers.  A JavaScript number is a record [k, v]: k = "fin" with an     *)
(* integer v, k = "inf" (+Infinity), k = "nan" (NaN) or k = "null" (the    *)
(* coordinates of currentPosition = null).  Lengths and latitudes are      *)
(* counted in half metres of arc along one meridian, so that a distance    *)
(* can fall on x.5 m and Math.round has something to do.                   *)
(***************************************************************************)
EXTENDS Integers, Sequences, FiniteSets, TLC

\* ------------------------------------------------------------------ bounds
\* How often the Start Tour button is pressed in one run.
MaxStarts == 2

\* The coordinates of the distance table run from -MaxOffset to MaxOffset.
MaxOffset == 5

\* ----------------------------------------------------------------- numbers
Fin(n) == [k |-> "fin", v |-> n]
NaN == [k |-> "nan", v |-> 0]
Infinity == [k |-> "inf", v |-> 0]
NullNumber == [k |-> "null", v |-> 0]

IsFinite(x) == x.k = "fin"

\* a < b on non-negative numbers, +Infinity and NaN (IEEE 754: any
\* comparison with NaN is false).
Lt(a, b) ==
  IF a.k = "nan" \/ b.k = "nan" THEN FALSE
  ELSE IF a.k = "inf" THEN FALSE
  ELSE IF b.k = "inf" THEN TRUE
  ELSE a.v < b.v

\* a <= b, likewise.
Le(a, b) ==
  IF a.k = "nan" \/ b.k = "nan" THEN FALSE
  ELSE IF b.k = "inf" THEN TRUE
  ELSE IF a.k = "inf" THEN FALSE
  ELSE a.v <= b.v

Abs(n) == IF n < 0 THEN -n ELSE n

\* Math.round of a finite non-negative length held in half metres, in whole
\* metres: floor(x + 0.5).
MathRound_Floor(d) == d.v \div 2

MathRound(d) == (d.v + 1) \div 2

\* A length of m whole metres, in half metres.
Metres(m) == Fin(2 * m)

\* ----------------------------------------------------------- configuration
Null == "null"
NoWatch == 0

TRIGGER_RADIUS == 30

OldCabin == "/oldcabin.m4a"

\* The catalog of the first draft.  The three sites lie 796 m and about
\* 12 km apart; on the model's meridian they keep their order and stay
\* more than two trigger radii apart (80 m and 200 m), so that, as in the
\* source, no position is within the radius of two of them.
pointsOfInterest1 ==
  << [id |-> 1, name |-> "The Old Adams Cabin Site",
      lat |-> Fin(0), lon |-> Fin(0), audioSrc |-> OldCabin],
     [id |-> 2, name |-> "Approx. Wylie Road Schoolhouse Location",
      lat |-> Fin(-160), lon |-> Fin(0), audioSrc |-> OldCabin],
     [id |-> 3, name |-> "Approx. 69 Lange Rd",
      lat |-> Fin(400), lon |-> Fin(0), audioSrc |-> OldCabin] >>

\* The catalog of the second draft and of part_000: the first two sites.
pointsOfInterest2 == SubSeq(pointsOfInterest1, 1, 2)

\* A deployment with sites closer together than the trigger radius and one
\* narration per site: 20 m apart.
denseCatalog ==
  << [id |-> 1, name |-> "Site A",
      lat |-> Fin(0), lon |-> Fin(0), audioSrc |-> "/a.m4a"],
     [id |-> 2, name |-> "Site B",
      lat |-> Fin(40), lon |-> Fin(0), audioSrc |-> "/b.m4a"] >>

Catalogs == {pointsOfInterest1, pointsOfInterest2, denseCatalog}

Drafts == {"first", "second"}

\* ----------------------------------------------------------------- inputs
Position(lat, lon) == [latitude |-> lat, longitude |-> lon]
NullPosition == Position(NullNumber, NullNumber)

\* The fixes the position source delivers: at the first site (20 m from
\* Site B), exactly on its trigger radius, half a metre outside it, midway
\* between the first two sites (40 m from each), at the second and at the
\* third site.
FiniteSamples ==
  { Position(Fin(lat), Fin(0)) : lat \in {0, 60, 61, -80, -160, 400} }

\* A fix whose coordinates are not finite numbers.
NonFiniteSamples == { Position(NaN, Fin(0)), Position(Fin(0), Infinity) }

Samples == FiniteSamples \cup NonFiniteSamples

IsFiniteSample(p) == IsFinite(p.latitude) /\ IsFinite(p.longitude)

\* GeolocationPositionError.message
Messages == {"User denied Geolocation", "Position unavailable", "Timeout expired"}

\* ---------------------------------------------------------------- getDistance
\* The haversine distance.  A non-finite argument makes delta-phi or
\* delta-lambda non-finite or NaN, its sine NaN, and the result NaN.  The
\* finite points of the tour lie on one meridian: delta-lambda = 0,
\* a = sin^2(delta-phi / 2), c = |delta-phi| and R * c is the arc between
\* the two latitudes.  Two points on the equator have delta-phi = 0 and
\* cos(phi1) = cos(phi2) = 1: a = sin^2(delta-lambda / 2) and R * c is the
\* arc between the two longitudes.
getDistance_InfinityForNonFinite(lat1, lon1, lat2, lon2) ==
  IF ~(IsFinite(lat1) /\ IsFinite(lon1) /\ IsFinite(lat2) /\ IsFinite(lon2))
  THEN Infinity
  ELSE Fin(Abs(lat2.v - lat1.v))

getDistance_Signed(lat1, lon1, lat2, lon2) ==
  IF ~(IsFinite(lat1) /\ IsFinite(lon1) /\ IsFinite(lat2) /\ IsFinite(lon2))
  THEN NaN
  ELSE CASE lon1.v = lon2.v -> Fin(lat2.v - lat1.v)
         [] lat1.v = 0 /\ lat2.v = 0 -> Fin(lon2.v - lon1.v)

getDistance(lat1, lon1, lat2, lon2) ==
  IF ~(IsFinite(lat1) /\ IsFinite(lon1) /\ IsFinite(lat2) /\ IsFinite(lon2))
  THEN NaN
  ELSE CASE lon1.v = lon2.v -> Fin(Abs(lat2.v - lat1.v))
         [] lat1.v = 0 /\ lat2.v = 0 -> Fin(Abs(lon2.v - lon1.v))

\* ------------------------------------------------------------- status texts
Message(kind, name, metres) == [kind |-> kind, name |-> name, metres |-> metres]

\* "Click 'Start Tour' to begin."
ClickStart == Message("ClickStart", "", 0)
\* "Location activated. Walking tour started."
Activated == Message("Activated", "", 0)
\* "Searching for points of interest..."
Searching == Message("Searching", "", 0)
\* `Playing story for: ${name}`
PlayingStoryFor(name) == Message("PlayingStoryFor", name, 0)
\* `Walk towards ${name} (${metres}m away)`
WalkTowards(name, metres) == Message("WalkTowards", name, metres)
\* `Audio ready for: ${name}. Press play.`
AudioReadyFor(name) == Message("AudioReadyFor", name, 0)

ErrorNotice(kind, text) == [kind |-> kind, text |-> text]

NoError == ErrorNotice("null", "")
\* "Geolocation is not supported by your browser."
NotSupported == ErrorNotice("NotSupported", "")
\* `Permission Denied: ${err.message}. Please enable location services.`
PermissionDenied(message) == ErrorNotice("PermissionDenied", message)
\* `Location Error: ${err.message}`
LocationError(message) == ErrorNotice("LocationError", message)
\* "Your browser blocked autoplay. Please press play on the audio player."
\* (first draft); "... Please press the play button on the audio player
\* below." (second draft, part_000)
AutoplayBlocked(d) ==
  ErrorNotice("AutoplayBlocked",
              IF d = "first" THEN "Please press play on the audio player."
              ELSE "Please press the play button on the audio player below.")

\* -------------------------------------------------------------------- state
VARIABLES
  draft,             \* which draft of the component runs
  pointsOfInterest,  \* the configured catalog
  geolocation,       \* whether navigator.geolocation exists
  audioRef,          \* whether audioRef.current holds the <audio> element
                     \* (useRef<HTMLAudioElement | null>; both uses guard it)
  mounted,           \* the component is mounted (audioRef.current is set)
  locations,         \* useState: the catalog with played and distance
  currentPosition,   \* useState
  statusMessage,     \* useState
  activeAudio,       \* useState
  isWatching,        \* useState
  error,             \* useState
  watchIdRef,        \* useRef: the stored watchPosition id
  audio,             \* the <audio> element: its src and muted attributes
  playPromises,      \* play() promises not settled yet
  starts,            \* presses of Start Tour so far
  pendingFixes,      \* getCurrentPosition requests not answered yet
  activeWatches,     \* watchPosition subscriptions not cleared
  nextWatchId,       \* the id the next watchPosition returns
  triggerCount,      \* history: runs of the trigger block, per site
  playAttempts,      \* history: narration play() calls of the effect
  repeatedFix,       \* history: the last sample processed equalled the one before
  pointA,            \* distance table: the first point handed to getDistance
  pointB,            \* distance table: the second point
  measured           \* distance table: the distances computed for them

vars ==
  << draft, pointsOfInterest, geolocation, mounted, locations, currentPosition,
     statusMessage, activeAudio, isWatching, error, watchIdRef, audio,
     playPromises, starts, pendingFixes, activeWatches, nextWatchId,
     triggerCount, playAttempts, repeatedFix, audioRef, pointA, pointB,
     measured >>

config == << draft, pointsOfInterest, geolocation, audioRef >>

\* The variables of the distance table, which the page never touches.
table == << pointA, pointB, measured >>

Sites == DOMAIN locations

\* The React state the handlers read and write, as one value.
State ==
  [ locations |-> locations, currentPosition |-> currentPosition,
    statusMessage |-> statusMessage, activeAudio |-> activeAudio,
    isWatching |-> isWatching, error |-> error ]

\* ---------------------------------------------------- processLocationUpdate
\* The condition of the block that runs when a point is "visited".
Triggers_IgnoringPlayed(point, distance) ==
  Le(distance, Metres(TRIGGER_RADIUS))

Triggers_NotBeyond(point, distance) ==
  ~Lt(Metres(TRIGGER_RADIUS), distance) /\ ~point.played

Triggers_StrictlyInside(point, distance) ==
  Lt(distance, Metres(TRIGGER_RADIUS)) /\ ~point.played

Triggers(point, distance) ==
  Le(distance, Metres(TRIGGER_RADIUS)) /\ ~point.played

\* return { ...point, played: true, distance }
VisitedPoint_KeepsDistance(point, distance) ==
  [point EXCEPT !.played = TRUE]

VisitedPoint(point, distance) ==
  [point EXCEPT !.played = TRUE, !.distance = distance]

\* return { ...point, distance }
MovedPoint_PlayedWhileNear(point, distance) ==
  [point EXCEPT !.played = point.played /\ Le(distance, Metres(TRIGGER_RADIUS)),
                !.distance = distance]

MovedPoint_KeepsDistance(point, distance) ==
  point

MovedPoint(point, distance) ==
  [point EXCEPT !.distance = distance]

\* The locals of one call and the setters called so far, before the map.
StartOfUpdate_ClearsError(st) ==
  [ nearestPoint |-> [name |-> "", distance |-> Infinity],
    didTriggerAudio |-> FALSE,
    error |-> NoError,
    activeAudio |-> st.activeAudio,
    statusMessage |-> st.statusMessage,
    updatedLocations |-> << >>,
    triggered |-> << >> ]

StartOfUpdate(st) ==
  [ nearestPoint |-> [name |-> "", distance |-> Infinity],
    didTriggerAudio |-> FALSE,
    error |-> st.error,
    activeAudio |-> st.activeAudio,
    statusMessage |-> st.statusMessage,
    updatedLocations |-> << >>,
    triggered |-> << >> ]

\* The body of prevLocations.map for one point.
MapPoint_LastOfTies(acc, point, position) ==
  LET distance == getDistance(position.latitude, position.longitude,
                              point.lat, point.lon)
      near == IF Le(distance, acc.nearestPoint.distance)
              THEN [name |-> point.name, distance |-> distance]
              ELSE acc.nearestPoint
  IN IF Triggers(point, distance)
     THEN [ nearestPoint |-> near,
            didTriggerAudio |-> TRUE,
            error |-> NoError,
            activeAudio |-> point.audioSrc,
            statusMessage |-> PlayingStoryFor(point.name),
            updatedLocations |-> Append(acc.updatedLocations,
                                        VisitedPoint(point, distance)),
            triggered |-> Append(acc.triggered, point.id) ]
     ELSE [ acc EXCEPT !.nearestPoint = near,
                       !.updatedLocations =
                          Append(@, MovedPoint(point, distance)) ]

MapPoint(acc, point, position) ==
  LET distance == getDistance(position.latitude, position.longitude,
                              point.lat, point.lon)
      near == IF Lt(distance, acc.nearestPoint.distance)
              THEN [name |-> point.name, distance |-> distance]
              ELSE acc.nearestPoint
  IN IF Triggers(point, distance)
     THEN [ nearestPoint |-> near,
            didTriggerAudio |-> TRUE,
            error |-> NoError,
            activeAudio |-> point.audioSrc,
            statusMessage |-> PlayingStoryFor(point.name),
            updatedLocations |-> Append(acc.updatedLocations,
                                        VisitedPoint(point, distance)),
            triggered |-> Append(acc.triggered, point.id) ]
     ELSE [ acc EXCEPT !.nearestPoint = near,
                       !.updatedLocations =
                          Append(@, MovedPoint(point, distance)) ]

\* prevLocations.map(...) over the first n points, in catalog order.
RECURSIVE MapLocations(_, _, _, _)
MapLocations(st, prevLocations, n, position) ==
  IF n = 0 THEN StartOfUpdate(st)
  ELSE MapPoint(MapLocations(st, prevLocations, n - 1, position),
                prevLocations[n], position)

\* The locals after the map.
UpdateLocals(st, position) ==
  MapLocations(st, st.locations, Len(st.locations), position)

\* The state after processLocationUpdate(position).
processLocationUpdate(st, position) ==
  LET acc == UpdateLocals(st, position)
  IN [ st EXCEPT
         !.currentPosition = position,
         !.locations = acc.updatedLocations,
         !.error = acc.error,
         !.activeAudio = acc.activeAudio,
         !.statusMessage =
            IF acc.didTriggerAudio THEN acc.statusMessage
            ELSE IF acc.nearestPoint.distance = Infinity THEN Searching
            ELSE WalkTowards(acc.nearestPoint.name,
                             MathRound(acc.nearestPoint.distance)) ]

\* The sites whose trigger block ran in processLocationUpdate(position), in
\* the order it ran for them.
TriggeredBy(st, position) == UpdateLocals(st, position).triggered

\* ------------------------------------------------------ useEffect[activeAudio]

\* The promise of the play() call that unlocks audio in handleStartTour.
UnlockPromise == [kind |-> "unlock", activeAudio |-> Null, site |-> 0, attempt |-> 0]

\* The promise of the effect's play() call; its catch handler closes over
\* activeAudio.  History: site is the site whose setActiveAudio call set
\* it, attempt the number of this play attempt in the run.
NarrationPromise(src, site, attempt) ==
  [kind |-> "narration", activeAudio |-> src, site |-> site, attempt |-> attempt]

\* React runs the effect after a render in which activeAudio differs from
\* the previous render's (Object.is); its body runs under
\* if (activeAudio && audioRef.current).
EffectPlays_IgnoringRef(previous, next) ==
  /\ next # previous
  /\ next # Null
  /\ mounted

EffectPlays(previous, next) ==
  /\ next # previous
  /\ next # Null
  /\ audioRef
  /\ mounted

Last(seq) == seq[Len(seq)]

\* The count of i in seq.
Count(seq, i) == Cardinality({k \in DOMAIN seq : seq[k] = i})

\* The render that commits the state st a handler has set, and the effect
\* after it.  triggered: the sites whose trigger block ran in the handler;
\* element and promises: the <audio> element and the pending promises as the
\* handler left them.
Render(st, triggered, element, promises) ==
  /\ locations' = st.locations
  /\ currentPosition' = st.currentPosition
  /\ statusMessage' = st.statusMessage
  /\ activeAudio' = st.activeAudio
  /\ isWatching' = st.isWatching
  /\ error' = st.error
  /\ triggerCount' = [i \in Sites |-> triggerCount[i] + Count(triggered, i)]
  /\ IF EffectPlays(activeAudio, st.activeAudio)
     THEN /\ audio' = [src |-> st.activeAudio,
                       muted |-> IF draft = "first" THEN element.muted ELSE FALSE]
          /\ playPromises' =
               Append(promises, NarrationPromise(st.activeAudio, Last(triggered),
                                                 playAttempts + 1))
          /\ playAttempts' = playAttempts + 1
     ELSE /\ audio' = element
          /\ playPromises' = promises
          /\ playAttempts' = playAttempts

\* A callback that runs after the component has unmounted: React drops its
\* state updates, and there is no <audio> element.
Dropped ==
  UNCHANGED << locations, currentPosition, statusMessage, activeAudio,
               isWatching, error, triggerCount, audio, playAttempts >>

\* ------------------------------------------------------------------ handlers
\* The state the catch handler of the effect's play() promise sets.
OnPlayRejected_ClearsAudio(st, promise) ==
  [st EXCEPT !.error = AutoplayBlocked(draft), !.activeAudio = Null]

OnPlayRejected_RollsBack(st, promise) ==
  [st EXCEPT !.error = AutoplayBlocked(draft),
             !.locations =
               [i \in DOMAIN st.locations |->
                  IF st.locations[i].audioSrc = promise.activeAudio
                  THEN [st.locations[i] EXCEPT !.played = FALSE]
                  ELSE st.locations[i]]]

OnPlayRejected(st, promise) ==
  LET found == {i \in DOMAIN pointsOfInterest :
                  pointsOfInterest[i].audioSrc = promise.activeAudio}
      lastTriggeredPoint ==
        pointsOfInterest[CHOOSE i \in found : \A j \in found : i <= j]
  IN IF draft = "first"
     THEN [st EXCEPT !.error = AutoplayBlocked(draft)]
     ELSE [st EXCEPT !.error = AutoplayBlocked(draft),
                     !.statusMessage =
                        IF found # {} THEN AudioReadyFor(lastTriggeredPoint.name)
                        ELSE @]

\* The state the error callback of watchPosition sets.
OnWatchError_ResetsDistances(st, message) ==
  [st EXCEPT !.error = LocationError(message),
             !.locations = [i \in DOMAIN st.locations |->
                              [st.locations[i] EXCEPT !.distance = Infinity]]]

OnWatchError_GenericMessage(st, message) ==
  [st EXCEPT !.error = LocationError("")]

OnWatchError(st, message) ==
  [st EXCEPT !.error = LocationError(message)]

\* The state the error callback of getCurrentPosition sets.
OnInitialFixError(st, message) ==
  [st EXCEPT !.error = PermissionDenied(message)]

\* The state the success callback of getCurrentPosition sets before it
\* calls processLocationUpdate.
OnInitialFix(st) ==
  [st EXCEPT !.isWatching = TRUE, !.error = NoError, !.statusMessage = Activated]

Remove(seq, k) == SubSeq(seq, 1, k - 1) \o SubSeq(seq, k + 1, Len(seq))

\* The distance table before anything was measured.
NoDistances == [ab |-> NullNumber, ba |-> NullNumber, aa |-> NullNumber]

\* ------------------------------------------------------------------- actions
Init ==
  /\ draft \in Drafts
  /\ pointsOfInterest \in Catalogs
  /\ geolocation \in BOOLEAN
  /\ audioRef \in BOOLEAN
  /\ mounted = TRUE
  /\ locations =
       [i \in DOMAIN pointsOfInterest |->
          [id |-> pointsOfInterest[i].id, name |-> pointsOfInterest[i].name,
           lat |-> pointsOfInterest[i].lat, lon |-> pointsOfInterest[i].lon,
           audioSrc |-> pointsOfInterest[i].audioSrc,
           played |-> FALSE, distance |-> Infinity]]
  /\ currentPosition = NullPosition
  /\ statusMessage = ClickStart
  /\ activeAudio = Null
  /\ isWatching = FALSE
  /\ error = NoError
  /\ watchIdRef = NoWatch
  /\ audio = [src |-> Null, muted |-> FALSE]
  /\ playPromises = << >>
  /\ starts = 0
  /\ pendingFixes = 0
  /\ activeWatches = {}
  /\ nextWatchId = 1
  /\ triggerCount = [i \in DOMAIN pointsOfInterest |-> 0]
  /\ playAttempts = 0
  /\ repeatedFix = FALSE
  /\ pointA = NullPosition
  /\ pointB = NullPosition
  /\ measured = NoDistances

\* The Start Tour button, rendered while !isWatching.
handleStartTour ==
  /\ mounted
  /\ ~isWatching
  /\ starts < MaxStarts
  /\ starts' = starts + 1
  /\ IF ~geolocation
     THEN /\ Render([State EXCEPT !.error = NotSupported], << >>,
                    audio, playPromises)
          /\ UNCHANGED pendingFixes
     ELSE /\ IF audioRef
             THEN Render(State, << >>,
                         [audio EXCEPT !.muted = (draft # "first")],
                         Append(playPromises, UnlockPromise))
             ELSE Render(State, << >>, audio, playPromises)
          /\ pendingFixes' = pendingFixes + 1
  /\ UNCHANGED << config, table, repeatedFix, mounted, watchIdRef,
                  activeWatches, nextWatchId >>

\* The success callback of getCurrentPosition.
InitialFix(position) ==
  /\ pendingFixes > 0
  /\ pendingFixes' = pendingFixes - 1
  /\ IF mounted
     THEN Render(processLocationUpdate(OnInitialFix(State), position),
                 TriggeredBy(OnInitialFix(State), position),
                 audio, playPromises)
     ELSE Dropped /\ UNCHANGED playPromises
  /\ watchIdRef' = nextWatchId
  /\ activeWatches' = activeWatches \cup {nextWatchId}
  /\ nextWatchId' = nextWatchId + 1
  /\ repeatedFix' = IF mounted THEN position = currentPosition ELSE repeatedFix
  /\ UNCHANGED << config, table, mounted, starts >>

\* The error callback of getCurrentPosition.
InitialFixError(message) ==
  /\ pendingFixes > 0
  /\ pendingFixes' = pendingFixes - 1
  /\ IF mounted
     THEN Render(OnInitialFixError(State, message), << >>, audio, playPromises)
     ELSE Dropped /\ UNCHANGED playPromises
  /\ UNCHANGED << config, table, repeatedFix, mounted, starts, watchIdRef,
                  activeWatches, nextWatchId >>

\* The success callback of watchPosition: processLocationUpdate.
WatchFix(id, position) ==
  /\ id \in activeWatches
  /\ IF mounted
     THEN Render(processLocationUpdate(State, position),
                 TriggeredBy(State, position), audio, playPromises)
     ELSE Dropped /\ UNCHANGED playPromises
  /\ repeatedFix' = IF mounted THEN position = currentPosition ELSE repeatedFix
  /\ UNCHANGED << config, table, mounted, starts, pendingFixes, watchIdRef,
                  activeWatches, nextWatchId >>

\* The error callback of watchPosition.
WatchError_EndsWatch(id, message) ==
  /\ id \in activeWatches
  /\ IF mounted
     THEN Render(OnWatchError(State, message), << >>, audio, playPromises)
     ELSE Dropped /\ UNCHANGED playPromises
  /\ activeWatches' = activeWatches \ {id}
  /\ UNCHANGED << config, table, repeatedFix, mounted, starts, pendingFixes, watchIdRef,
                  nextWatchId >>

WatchError(id, message) ==
  /\ id \in activeWatches
  /\ IF mounted
     THEN Render(OnWatchError(State, message), << >>, audio, playPromises)
     ELSE Dropped /\ UNCHANGED playPromises
  /\ UNCHANGED << config, table, repeatedFix, mounted, starts, pendingFixes, watchIdRef,
                  activeWatches, nextWatchId >>

\* A play() promise is fulfilled: no handler is attached to that.
PlayResolved(k) ==
  /\ k \in DOMAIN playPromises
  /\ playPromises' = Remove(playPromises, k)
  /\ Dropped
  /\ UNCHANGED << config, table, repeatedFix, mounted, starts, pendingFixes, watchIdRef,
                  activeWatches, nextWatchId >>

\* A play() promise is rejected: catch(() => {}) for the unlock, the
\* effect's catch handler for a narration.
PlayRejected_SurfacesUnlock(k) ==
  /\ k \in DOMAIN playPromises
  /\ IF mounted
     THEN Render([State EXCEPT !.error = AutoplayBlocked(draft)], << >>,
                 audio, Remove(playPromises, k))
     ELSE Dropped /\ playPromises' = Remove(playPromises, k)
  /\ UNCHANGED << config, table, repeatedFix, mounted, starts, pendingFixes, watchIdRef,
                  activeWatches, nextWatchId >>

PlayRejected(k) ==
  /\ k \in DOMAIN playPromises
  /\ IF mounted /\ playPromises[k].kind = "narration"
     THEN Render(OnPlayRejected(State, playPromises[k]), << >>,
                 audio, Remove(playPromises, k))
     ELSE Dropped /\ playPromises' = Remove(playPromises, k)
  /\ UNCHANGED << config, table, repeatedFix, mounted, starts, pendingFixes, watchIdRef,
                  activeWatches, nextWatchId >>

\* The cleanup of the mount effect, when the component unmounts.
Teardown ==
  /\ mounted
  /\ mounted' = FALSE
  /\ activeWatches' =
       IF watchIdRef # NoWatch THEN activeWatches \ {watchIdRef}
       ELSE activeWatches
  /\ Dropped
  /\ UNCHANGED << config, table, repeatedFix, starts, pendingFixes, watchIdRef, playPromises,
                  nextWatchId >>

Next ==
  \/ handleStartTour
  \/ \E position \in Samples : InitialFix(position)
  \/ \E message \in Messages : InitialFixError(message)
  \/ \E id \in activeWatches, position \in Samples : WatchFix(id, position)
  \/ \E id \in activeWatches, message \in Messages : WatchError(id, message)
  \/ \E k \in DOMAIN playPromises : PlayResolved(k)
  \/ \E k \in DOMAIN playPromises : PlayRejected(k)
  \/ Teardown

Spec == Init /\ [][Next]_vars

\* ------------------------------------------------------------- the AR button
\* useState(false); the AR view, an overlay over the page, is not opened.
showAR == FALSE

\* Whether the "Launch AR Experience" button is rendered in a site's card.
ARButton(point) ==
  IF draft = "first" THEN point.played
  ELSE point.id = 1 /\ point.played /\ ~showAR

\* --------------------------------------------------------- the distance table
\* getDistance on its own: two points are drawn, then it is called on them
\* in both orders and on the first point twice.
\* Both points lie on the meridian of longitude 0 or both on the equator.
TablePairs ==
  { << Position(Fin(a), Fin(0)), Position(Fin(b), Fin(0)) >> :
      a \in -MaxOffset .. MaxOffset, b \in -MaxOffset .. MaxOffset }
  \cup
  { << Position(Fin(0), Fin(a)), Position(Fin(0), Fin(b)) >> :
      a \in -MaxOffset .. MaxOffset, b \in -MaxOffset .. MaxOffset }

DistInit ==
  /\ draft = "first"
  /\ pointsOfInterest = pointsOfInterest1
  /\ geolocation = TRUE
  /\ audioRef = TRUE
  /\ mounted = TRUE
  /\ locations =
       [i \in DOMAIN pointsOfInterest |->
          [id |-> pointsOfInterest[i].id, name |-> pointsOfInterest[i].name,
           lat |-> pointsOfInterest[i].lat, lon |-> pointsOfInterest[i].lon,
           audioSrc |-> pointsOfInterest[i].audioSrc,
           played |-> FALSE, distance |-> Infinity]]
  /\ currentPosition = NullPosition
  /\ statusMessage = ClickStart
  /\ activeAudio = Null
  /\ isWatching = FALSE
  /\ error = NoError
  /\ watchIdRef = NoWatch
  /\ audio = [src |-> Null, muted |-> FALSE]
  /\ playPromises = << >>
  /\ starts = 0
  /\ pendingFixes = 0
  /\ activeWatches = {}
  /\ nextWatchId = 1
  /\ triggerCount = [i \in DOMAIN pointsOfInterest |-> 0]
  /\ playAttempts = 0
  /\ repeatedFix = FALSE
  /\ \E pair \in TablePairs : pointA = pair[1] /\ pointB = pair[2]
  /\ measured = NoDistances

Measure ==
  /\ measured = NoDistances
  /\ measured' =
       [ab |-> getDistance(pointA.latitude, pointA.longitude,
                           pointB.latitude, pointB.longitude),
        ba |-> getDistance(pointB.latitude, pointB.longitude,
                           pointA.latitude, pointA.longitude),
        aa |-> getDistance(pointA.latitude, pointA.longitude,
                           pointA.latitude, pointA.longitude)]
  /\ UNCHANGED << config, mounted, locations, currentPosition, statusMessage,
                  activeAudio, isWatching, error, watchIdRef, audio,
                  playPromises, starts, pendingFixes, activeWatches,
                  nextWatchId, triggerCount, playAttempts, repeatedFix,
                  pointA, pointB >>

DistNext == Measure

DistSpec == DistInit /\ [][DistNext]_vars

\* -------------------------------------------------------------- properties
Radius == Metres(TRIGGER_RADIUS)

\* The sites that go from unvisited to visited in a step.
NewlyVisited == {i \in Sites : ~locations[i].played /\ locations'[i].played}

\* A step that processes a position sample in the mounted component (which
\* stores the sample as currentPosition).
FixStep ==
  /\ mounted
  /\ \E position \in Samples :
       /\ position = currentPosition'
       /\ InitialFix(position) \/ \E id \in activeWatches : WatchFix(id, position)

\* A step that processes a sample with a non-finite coordinate.
NonFiniteFixStep ==
  /\ mounted
  /\ \E position \in NonFiniteSamples :
       /\ position = currentPosition'
       /\ InitialFix(position) \/ \E id \in activeWatches : WatchFix(id, position)

\* A step in which the stream delivers a sample with a non-finite
\* coordinate: processLocationUpdate and nothing else.
NonFiniteWatchFixStep ==
  /\ mounted
  /\ \E position \in NonFiniteSamples :
       /\ position = currentPosition'
       /\ \E id \in activeWatches : WatchFix(id, position)

\* A step that delivers an error of the position source.
SourceErrorStep ==
  \/ \E message \in Messages : InitialFixError(message)
  \/ \E id \in activeWatches, message \in Messages : WatchError(id, message)

\* A step in which the effect's play() promise k is rejected.
NarrationRejected(k) ==
  /\ mounted
  /\ playPromises[k].kind = "narration"
  /\ PlayRejected(k)

\* C1: once a site's played flag is true it is true in every later state,
\* whatever the later distances, errors and playback outcomes are.
C1_MonotonicVisited ==
  [][\A i \in Sites : locations[i].played => locations'[i].played]_vars

\* C1 witness: a visited site that a later fix has put outside the radius.
C1_Witness ==
  \E i \in Sites : locations[i].played /\ Lt(Radius, locations[i].distance)

\* C2 (as claimed): at most one site goes from unvisited to visited in one
\* step, also when a sample puts several unvisited sites within the radius.
C2_AtMostOneTransition ==
  [][Cardinality(NewlyVisited) <= 1]_vars

\* C3 (as claimed): when an update triggers, the site named in the status
\* message and the site whose audioSrc becomes activeAudio are both the
\* earliest site in catalog order among those unvisited and within the
\* radius of the sample.
C3_EarliestQualifyingPlays ==
  [][NewlyVisited # {} =>
       LET qualifying == {i \in Sites : /\ ~locations[i].played
                                        /\ Le(locations'[i].distance, Radius)}
           first == CHOOSE i \in qualifying : \A j \in qualifying : i <= j
       IN /\ statusMessage' = PlayingStoryFor(locations[first].name)
          /\ activeAudio' = locations[first].audioSrc]_vars

\* C4: over a run, the trigger block (played := true, setActiveAudio, the
\* playing message) runs at most once for each site.
C4_AtMostOnceTrigger ==
  \A i \in Sites : triggerCount[i] <= 1

\* C4 witness: a site that has triggered is within the radius again and the
\* update has reported it as the nearest site instead of triggering it.
C4_Witness ==
  \E i \in Sites :
    /\ triggerCount[i] = 1
    /\ Le(locations[i].distance, Radius)
    /\ statusMessage =
         WalkTowards(locations[i].name, MathRound(locations[i].distance))

\* C5 (as claimed): with the <audio> element in place, a step in which one
\* site becomes visited starts one play attempt, for that site's narration,
\* also when activeAudio already held the same audioSrc.
C5_EveryTriggerPlays ==
  [][\A i \in Sites :
       (audioRef /\ NewlyVisited = {i}) =>
         /\ playAttempts' = playAttempts + 1
         /\ Len(playPromises') = Len(playPromises) + 1
         /\ Last(playPromises') =
              NarrationPromise(locations[i].audioSrc, i, playAttempts')]_vars

\* C6: a site becomes visited only in a step that processes a sample which
\* puts its distance at or below the trigger radius (30 m inclusive); no
\* other handler sets a played flag.
C6_NoSpuriousVisit ==
  [][\A i \in NewlyVisited :
       /\ FixStep
       /\ IsFiniteSample(currentPosition')
       /\ locations'[i].distance =
            getDistance(currentPosition'.latitude, currentPosition'.longitude,
                        locations[i].lat, locations[i].lon)
       /\ Le(locations'[i].distance, Radius)]_vars

\* C6 witness: a site triggered by a sample exactly on the trigger radius.
C6_Witness ==
  \E i \in Sites :
    /\ locations[i].played
    /\ locations[i].distance = Radius
    /\ statusMessage = PlayingStoryFor(locations[i].name)

\* C7 (as claimed): a sample with a non-finite coordinate is rejected with
\* an error and changes no played flag, no distance, not the status message
\* and not the active narration.
C7_NonFiniteRejected ==
  [][NonFiniteWatchFixStep =>
       /\ error'.kind = "InvalidSample"
       /\ UNCHANGED << locations, statusMessage, activeAudio >>]_vars

\* C7 (amended): a sample with a non-finite coordinate is processed like any
\* other and no error is reported for it: no played flag and not the active
\* narration change and no playback starts, but every site's distance
\* becomes NaN and the status message becomes "Searching for points of
\* interest...".
C7_NonFiniteProcessed ==
  [][NonFiniteFixStep =>
       /\ \A i \in Sites : /\ locations'[i].played = locations[i].played
                           /\ locations'[i].distance = NaN
       /\ statusMessage' = Searching
       /\ error' \in {error, NoError}
       /\ UNCHANGED << activeAudio, audio, playAttempts, triggerCount >>]_vars

\* C7 witness: a non-finite sample processed after a site was visited and
\* had a finite distance.
C7_Witness ==
  /\ ~IsFiniteSample(currentPosition)
  /\ currentPosition # NullPosition
  /\ statusMessage = Searching
  /\ \E i \in Sites : locations[i].played /\ locations[i].distance = NaN

\* C8: the rejection of a narration play() sets the autoplay-blocked notice
\* (which asks for a manual play), and the site whose trigger started the
\* attempt is visited before and after it: no played flag changes.
C8_RejectionKeepsVisited ==
  [][\A k \in DOMAIN playPromises :
       NarrationRejected(k) =>
         /\ error' = AutoplayBlocked(draft)
         /\ locations[playPromises[k].site].played
         /\ locations'[playPromises[k].site].played
         /\ \A i \in Sites : locations'[i].played = locations[i].played]_vars

\* C8 witness: the autoplay-blocked notice is shown and a site is visited.
C8_Witness ==
  /\ error = AutoplayBlocked(draft)
  /\ \E i \in Sites : locations[i].played /\ triggerCount[i] = 1

\* C9: the rejection of a narration play() changes neither activeAudio nor
\* the src loaded in the <audio> element; unless a later play attempt has
\* replaced it, that is the narration the rejected attempt was for.
C9_RejectionKeepsNarration ==
  [][\A k \in DOMAIN playPromises :
       NarrationRejected(k) =>
         /\ activeAudio' = activeAudio
         /\ audio' = audio
         /\ activeAudio' # Null
         /\ audio'.src = activeAudio'
         /\ playPromises[k].attempt = playAttempts
              => activeAudio' = playPromises[k].activeAudio]_vars

\* C9 witness: after a rejection the narration is still active and loaded.
C9_Witness ==
  /\ error.kind = "AutoplayBlocked"
  /\ activeAudio # Null
  /\ audio.src = activeAudio
  /\ audio.muted = FALSE

\* C10: an error of the position source (initial request or stream) changes
\* the error notice only: played flags, distances, status message and
\* active narration stay as they were.
C10_SourceErrorFrame ==
  [][SourceErrorStep =>
       UNCHANGED << locations, currentPosition, statusMessage, activeAudio,
                    isWatching, audio, playAttempts, triggerCount >>]_vars

\* C10 witness: a stream error is shown while a site is visited and the
\* distances of the last fix are still displayed.
C10_Witness ==
  /\ error.kind = "LocationError"
  /\ \E i \in Sites : locations[i].played /\ IsFinite(locations[i].distance)
  /\ statusMessage.kind = "WalkTowards"

\* C11 (as claimed): every error of the position source, for the initial
\* request or for the stream, is shown as "Location Error: <message>".
C11_EveryErrorIsLocationError ==
  [][\A message \in Messages :
       (/\ mounted
        /\ \/ InitialFixError(message)
           \/ \E id \in activeWatches : WatchError(id, message))
       => error' = LocationError(message)]_vars

\* C11 (amended): an error of the stream is shown as "Location Error:
\* <message>"; an error of the initial request is shown as "Permission
\* Denied: <message>. Please enable location services.", whatever its kind.
C11_ErrorNotices ==
  [][\A message \in Messages :
       /\ (mounted /\ \E id \in activeWatches : WatchError(id, message))
            => error' = LocationError(message)
       /\ (mounted /\ InitialFixError(message))
            => error' = PermissionDenied(message)]_vars

\* C11 witness: a stream error is displayed with its own message, after two
\* presses of Start Tour.
C11_Witness ==
  /\ error = LocationError("Timeout expired")
  /\ starts = 2
  /\ isWatching

\* C12 (as claimed): after teardown no position-stream subscription is
\* active.
C12_NoWatchAfterTeardown ==
  ~mounted => activeWatches = {}

\* C13 (as claimed): while the notice of a failed initial fix, of a stream
\* error or of a blocked playback is displayed, a position-stream
\* subscription is active.
C13_ErrorsLeaveTrackingRunning ==
  (mounted /\ error.kind \in {"PermissionDenied", "LocationError", "AutoplayBlocked"})
    => activeWatches # {}

\* While the notice of a stream error or of a blocked playback is displayed
\* the stored subscription is active, and a fix delivered then sets every
\* site's distance and visits every unvisited site within the radius.
TrackingRunsUnderNotice ==
  (mounted /\ error.kind \in {"LocationError", "AutoplayBlocked"}) =>
    /\ watchIdRef \in activeWatches
    /\ \A position \in FiniteSamples :
         (/\ position = currentPosition'
          /\ \E id \in activeWatches : WatchFix(id, position)) =>
           \A i \in Sites :
             /\ locations'[i].distance =
                  getDistance(position.latitude, position.longitude,
                              locations[i].lat, locations[i].lon)
             /\ (~locations[i].played /\ Le(locations'[i].distance, Radius))
                  => locations'[i].played

\* A failed initial fix creates no subscription.
FailedInitialFixStartsNothing ==
  (\E message \in Messages : InitialFixError(message)) =>
    UNCHANGED << activeWatches, watchIdRef, isWatching >>

\* C13 (amended): while the notice of a stream error or of a blocked
\* playback is displayed, the stored subscription is active, and a fix
\* delivered then sets every site's distance and visits every unvisited site
\* within the radius; a failed initial fix creates no subscription.
C13_StreamErrorsLeaveTrackingRunning ==
  [][TrackingRunsUnderNotice /\ FailedInitialFixStartsNothing]_vars

\* C13 witness: in the second draft a fix was processed while the
\* autoplay-blocked notice was displayed (the rejection had set the "Audio
\* ready" message, the fix has replaced it), and the notice is still shown.
C13_Witness ==
  /\ draft = "second"
  /\ error = AutoplayBlocked(draft)
  /\ statusMessage.kind = "WalkTowards"
  /\ watchIdRef \in activeWatches

FiniteFixStep == FixStep /\ IsFiniteSample(currentPosition')

\* The status message of the next state is "Walk towards" a site of minimum
\* distance over the whole catalog, with that distance rounded to the
\* nearest whole metre (distances are in half metres; a half rounds up).
WalksTowardsNearest ==
  \E i \in Sites :
    /\ \A j \in Sites : ~Lt(locations'[j].distance, locations'[i].distance)
    /\ statusMessage'.kind = "WalkTowards"
    /\ statusMessage'.name = locations[i].name
    /\ 2 * statusMessage'.metres - 1 <= locations'[i].distance.v
    /\ locations'[i].distance.v < 2 * statusMessage'.metres + 1

\* C15: a sample farther than the trigger radius from every site triggers
\* nothing (no played flag changes, activeAudio stays) and the status
\* message names a site of minimum distance with that distance rounded to
\* whole metres.
C15_FarSampleGuidesToNearest ==
  [][(FiniteFixStep /\ \A i \in Sites : Lt(Radius, locations'[i].distance)) =>
       /\ NewlyVisited = {}
       /\ UNCHANGED << activeAudio, triggerCount, playAttempts >>
       /\ WalksTowardsNearest]_vars

\* C15 witness: the nearest site is 30.5 m away, no site is within the
\* radius, and the message says 31 m.
C15_Witness ==
  \E i \in Sites :
    /\ locations[i].distance = Fin(61)
    /\ \A j \in Sites : Lt(Radius, locations[j].distance)
    /\ statusMessage = WalkTowards(locations[i].name, 31)

\* C16: a sample within the trigger radius of visited sites only triggers
\* nothing and starts no playback, and the status message is the
\* nearest-site message (which may name a visited site).
C16_VisitedOnlyNoTrigger ==
  [][(/\ FiniteFixStep
      /\ \E i \in Sites : Le(locations'[i].distance, Radius)
      /\ \A i \in Sites : Le(locations'[i].distance, Radius) => locations[i].played)
     =>
       /\ NewlyVisited = {}
       /\ UNCHANGED << activeAudio, audio, playPromises, triggerCount, playAttempts >>
       /\ WalksTowardsNearest]_vars

\* C16 witness: the visitor stands at a visited site, which is reported as
\* the nearest one at 0 m; one playback was started in the run.
C16_Witness ==
  \E i \in Sites :
    /\ locations[i].played
    /\ locations[i].distance = Fin(0)
    /\ statusMessage = WalkTowards(locations[i].name, 0)
    /\ playAttempts = 1

\* The AR launch is offered somewhere on the page.
ARUnlocked == \E i \in Sites : ARButton(locations[i])

\* C17 (as claimed): the AR launch is offered exactly when the site with
\* id 1 is visited.
C17_ARUnlockedIffFirstVisited ==
  ARUnlocked <=> (\E i \in Sites : locations[i].id = 1 /\ locations[i].played)

\* C18 (as claimed): after the first update the status message is never
\* "Searching for points of interest..." and no distance is Infinity.
C18_NeverSearchingAfterFirstUpdate ==
  currentPosition # NullPosition =>
    /\ statusMessage # Searching
    /\ \A i \in Sites : locations[i].distance # Infinity

\* C18 (amended): after the first update no distance is Infinity; while the
\* last sample processed has finite coordinates the status message is not
\* "Searching ..." and every distance is a finite number.
C18_NeverSearchingAfterFiniteUpdate ==
  currentPosition # NullPosition =>
    /\ \A i \in Sites : locations[i].distance # Infinity
    /\ IsFiniteSample(currentPosition) =>
         /\ statusMessage # Searching
         /\ \A i \in Sites : IsFinite(locations[i].distance)

\* C18 witness: a later update (a visited site is out of the radius again)
\* with finite distances and a "Walk towards" message.
C18_Witness ==
  /\ IsFiniteSample(currentPosition)
  /\ statusMessage.kind = "WalkTowards"
  /\ \E i \in Sites : locations[i].played /\ Lt(Radius, locations[i].distance)
  /\ \A i \in Sites : IsFinite(locations[i].distance)

C20_QualifyingSitesAreVisited ==
  [][FiniteFixStep =>
       \A i \in Sites :
         (/\ ~locations[i].played
          /\ Le(getDistance(currentPosition'.latitude, currentPosition'.longitude,
                            locations[i].lat, locations[i].lon), Radius))
         => locations'[i].played]_vars

\* C20 witness: two sites were within the radius of one sample, one of them
\* exactly on it, and both are visited after that one update.
C20_Witness ==
  /\ Cardinality(Sites) = 2
  /\ locations[1].played /\ locations[1].distance = Radius
  /\ locations[2].played /\ Le(locations[2].distance, Radius)
  /\ playAttempts = 1
  /\ statusMessage = PlayingStoryFor(locations[2].name)

\* A step in which the promise k of the unlocking play() call settles.
UnlockSettled(k) ==
  /\ playPromises[k].kind = "unlock"
  /\ PlayResolved(k) \/ PlayRejected(k)

\* The outcome of the unlocking play() call changes nothing but the list of
\* pending promises.
UnlockOutcomeIsIgnored ==
  \A k \in DOMAIN playPromises :
    UnlockSettled(k) =>
      UNCHANGED << error, locations, statusMessage, activeAudio, isWatching,
                   currentPosition, audio, pendingFixes, activeWatches,
                   watchIdRef, triggerCount, playAttempts >>

\* Start Tour with geolocation available issues the initial-fix request in
\* the handler itself, whatever becomes of the unlocking play() call, and
\* sets no notice and changes no site.
StartIssuesRequest ==
  (handleStartTour /\ geolocation) =>
    /\ pendingFixes' = pendingFixes + 1
    /\ UNCHANGED << error, locations, activeAudio >>

\* C21: the unlock at tour start is best-effort: whether its play() call
\* succeeds or fails, no error notice is set, no site changes, and the
\* initial-fix request is issued.
C21_UnlockIsBestEffort ==
  [][UnlockOutcomeIsIgnored /\ StartIssuesRequest]_vars

\* C21 witness: after one press of Start Tour the unlocking play() call has
\* settled (fulfilled or rejected: both lead here), no notice is shown and
\* the initial-fix request is pending.
C21_Witness ==
  /\ audioRef /\ geolocation
  /\ starts = 1
  /\ playPromises = << >>
  /\ pendingFixes = 1
  /\ error = NoError
  /\ \A i \in Sites : ~locations[i].played /\ locations[i].distance = Infinity

\* C22: the site reported as nearest is one of minimum distance over all
\* sites, visited or not, and of several sites at that minimum distance it
\* is the earliest in catalog order.
C22_NearestIsEarliestMinimum ==
  [][(FiniteFixStep /\ NewlyVisited = {}) =>
       \E i \in Sites :
         /\ statusMessage' = WalkTowards(locations[i].name,
                                         MathRound(locations'[i].distance))
         /\ \A j \in Sites : ~Lt(locations'[j].distance, locations'[i].distance)
         /\ \A j \in Sites : j < i => Lt(locations'[i].distance,
                                         locations'[j].distance)]_vars

\* C22 witness: the first two sites are 40 m away each, the first is
\* visited and the second is not, and the first is reported.
C22_Witness ==
  /\ locations[1].distance = Metres(40)
  /\ locations[2].distance = Metres(40)
  /\ locations[1].played /\ ~locations[2].played
  /\ statusMessage = WalkTowards(locations[1].name, 40)

\* A step that processes the sample position, the one processed last before.
DuplicateFix(position) ==
  /\ mounted
  /\ currentPosition = position
  /\ InitialFix(position) \/ \E id \in activeWatches : WatchFix(id, position)

\* C23: processing the same sample twice in a row leaves visited flags and
\* distances as the first processing left them, and the second processing
\* triggers nothing and starts no playback.
C23_DuplicateFixIsIdempotent ==
  [][\A position \in Samples :
       DuplicateFix(position) =>
         /\ locations' = locations
         /\ UNCHANGED << triggerCount, playAttempts, playPromises,
                         activeAudio, audio >>]_vars

\* C23 witness: the fix at the first site was delivered twice in a row; the
\* site was visited once, one playback was started, and the second
\* processing has replaced "Playing story for" by the nearest-site message.
C23_Witness ==
  /\ repeatedFix
  /\ currentPosition = Position(Fin(locations[1].lat.v), Fin(locations[1].lon.v))
  /\ locations[1].played /\ locations[1].distance = Fin(0)
  /\ triggerCount[1] = 1
  /\ playAttempts = 1
  /\ statusMessage = WalkTowards(locations[1].name, 0)

\* C24 (as claimed): the rejection of a playback attempt that is not the
\* latest one (a newer trigger has replaced the active narration since)
\* does not set the autoplay-blocked notice.
C24_StaleRejectionSetsNoNotice ==
  [][\A k \in DOMAIN playPromises :
       (NarrationRejected(k) /\ playPromises[k].attempt # playAttempts)
         => error' = error]_vars

\* C25 (as claimed): the "Audio ready for" message a rejection sets names
\* the site whose trigger caused the rejected playback attempt.
C25_AudioReadyNamesTriggeringSite ==
  [][\A k \in DOMAIN playPromises :
       (NarrationRejected(k) /\ draft = "second")
         => statusMessage' = AudioReadyFor(locations[playPromises[k].site].name)]_vars

\* C26 (as claimed): while the page is mounted at most one subscription is
\* active, and the stored handle refers to it.
C26_AtMostOneSubscription ==
  mounted =>
    /\ Cardinality(activeWatches) <= 1
    /\ activeWatches # {} => activeWatches = {watchIdRef}

\* A step that clears a displayed error notice.
NoticeCleared == error # NoError /\ error' = NoError

\* A stream fix that triggers no site.
QuietWatchFix ==
  /\ mounted
  /\ NewlyVisited = {}
  /\ \E position \in Samples :
       /\ position = currentPosition'
       /\ \E id \in activeWatches : WatchFix(id, position)

QuietFixKeepsNotice == QuietWatchFix => error' = error

ClearedOnlyByTriggerOrInitialFix ==
  NoticeCleared =>
    (NewlyVisited # {} \/ \E position \in Samples : InitialFix(position))

\* C27: the error notice is cleared only by a trigger or by a successful
\* initial fix; an update that triggers no site leaves it exactly as it
\* was.
C27_OnlyTriggerOrInitialFixClears ==
  [][QuietFixKeepsNotice /\ ClearedOnlyByTriggerOrInitialFix]_vars

\* C27 witness: in the second draft the autoplay-blocked notice is still
\* displayed after a fix, equal to the one before it, that triggered
\* nothing (the rejection had set the "Audio ready" message, the fix has
\* replaced it).
C27_Witness ==
  /\ draft = "second"
  /\ error = AutoplayBlocked(draft)
  /\ statusMessage.kind = "WalkTowards"
  /\ repeatedFix
  /\ isWatching

====
